---- MODULE Spec2Model ----
(***************************************************************************)
(* ServerStatus-Rust client (client/src/main.rs): the startup sequence,    *)
(* the push-channel tick loop (http_report), the record assembler          *)
(* (sample_all), the shared cache G_CONFIG and the geolocation refresh     *)
(* loop (refresh_ip_info).                                                 *)
(*                                                                         *)
(* Strings the code inspects character by character (the address, the      *)
(* interface names) are sequences of one-character strings; all other      *)
(* strings are opaque.                                                     *)
(*                                                                         *)
(* Spec      the program, each critical section of the cache one step      *)
(* SpecClock Spec on a host whose wall clock may be set back               *)
(* SpecLock  the push channel with every lock() and release a step         *)
(* SpecTimed the push channel with the timeouts of the deliveries          *)
(* SpecIface startup and skip_iface over the interface options             *)
(***************************************************************************)
EXTENDS Integers, Sequences, FiniteSets, TLC

\* ---------------------------------------------------------------- bounds
MaxTicks == 3
MaxLookups == 2
\* options given on the command line (the others keep their defaults)
MaxOptions == 1
\* ticks of the loop where the timeouts of the deliveries are followed
TimedTicks == 5

\* ------------------------------------------------------ program constants
INTERVAL_MS == 1000
REQUEST_TIMEOUT_S == 3
REFRESH_PERIOD_S == 3600

None == "None"

\* ------------------------------------------------------------- addresses
AddrHttp == <<"h", "t", "t", "p", ":", "/", "/", "h", ":", "8", "0", "8", "0", "/", "r", "e", "p", "o", "r", "t">>
AddrHttps == <<"h", "t", "t", "p", "s", ":", "/", "/", "h", "/", "r", "e", "p", "o", "r", "t">>
AddrGrpc == <<"g", "r", "p", "c", ":", "/", "/", "h", ":", "9", "3", "9", "4">>
AddrHttpx == <<"h", "t", "t", "p", "x", ":", "/", "/", "h", "/", "r", "e", "p", "o", "r", "t">>
AddrFtp == <<"f", "t", "p", ":", "/", "/", "h", "/", "r", "e", "p", "o", "r", "t">>

Addrs == {AddrHttp, AddrHttps, AddrGrpc, AddrHttpx, AddrFtp}

\* --------------------------------------------------- command-line domains
Users == {"h1", "u2"}
Passwords == {"p1"}
Gids == {"", "g1"}
Aliases == {"unknown", "a1"}
HostTypes == {""}
Locations == {""}
Weights == {0}

\* ----------------------------------------------------- interface names
N_lo == <<"l", "o">>
N_eth == <<"e", "t", "h">>
N_eth0 == <<"e", "t", "h", "0">>
N_eth1 == <<"e", "t", "h", "1">>
N_veth0 == <<"v", "e", "t", "h", "0">>
Blank == <<" ">>
Empty == <<>>

\* the names the samplers meet
IfaceNames == {N_lo, N_eth, N_eth0, N_eth1, N_veth0}

\* default_value of --exclude-iface, split at ','
ExcludeDefault ==
    <<N_lo, <<"d", "o", "c", "k", "e", "r">>, <<"v", "n", "e", "t">>,
      <<"v", "e", "t", "h">>, <<"v", "m", "b", "r">>, <<"k", "u", "b", "e">>,
      <<"b", "r", "-">>>>

\* values of --iface and --exclude-iface as parsed, blank entries included
IfaceLists ==
    {<<>>, <<N_eth0>>, <<N_eth>>, <<N_eth0, N_lo>>, <<Blank>>,
     <<Empty, N_eth1>>}
ExcludeLists ==
    {ExcludeDefault, <<>>, <<N_eth>>, <<Empty>>, <<<<"0">>>>, <<N_lo, Blank>>}

\* values the environment can hand back
IpInfos == {"ip1", "ip2"}
CpuVals == {7}
NetworkProbes == {<<FALSE, FALSE>>, <<TRUE, FALSE>>, <<FALSE, TRUE>>}
SysInfoVal == "sys0"
SysIdVal == "sysid"
PkgVersion == "ver"

\* ------------------------------------------------------- string helpers
\* str::starts_with
StartsWith(s, p) ==
    /\ Len(s) >= Len(p)
    /\ SubSeq(s, 1, Len(p)) = p

\* str::contains with a string pattern
Contains(s, p) ==
    \E i \in 1..(Len(s) - Len(p) + 1) : SubSeq(s, i, i + Len(p) - 1) = p

\* str::contains with a char pattern
ContainsChar(s, c) ==
    \E i \in 1..Len(s) : s[i] = c

FirstIdx(s, c) ==
    IF ContainsChar(s, c)
    THEN CHOOSE i \in 1..Len(s) : s[i] = c /\ \A j \in 1..(i - 1) : s[j] # c
    ELSE 0

\* str::split(char).collect::<Vec<&str>>()
RECURSIVE Split(_, _)
Split(s, c) ==
    LET i == FirstIdx(s, c)
    IN  IF i = 0
        THEN <<s>>
        ELSE <<SubSeq(s, 1, i - 1)>> \o Split(SubSeq(s, i + 1, Len(s)), c)

\* ------------------------------------------------------------- Args
Args ==
    [addr : Addrs, user : Users, pass : Passwords, vnstat : {FALSE},
     disable_extra : BOOLEAN, ip_info : BOOLEAN, json : BOOLEAN,
     gid : Gids, alias : Aliases, weight : Weights,
     disable_notify : {FALSE}, host_type : HostTypes, location : Locations,
     iface : {<<>>}, exclude_iface : {ExcludeDefault}]

\* the default_value of each option
DefaultArgs ==
    [addr |-> AddrHttp, user |-> "h1", pass |-> "p1", vnstat |-> FALSE,
     disable_extra |-> FALSE, ip_info |-> FALSE, json |-> FALSE,
     gid |-> "", alias |-> "unknown", weight |-> 0,
     disable_notify |-> FALSE, host_type |-> "", location |-> "",
     iface |-> <<>>, exclude_iface |-> ExcludeDefault]

\* Args::parse(): the command lines considered
CommandLines ==
    {a \in Args :
        Cardinality({f \in DOMAIN a : a[f] # DefaultArgs[f]}) <= MaxOptions}

\* Args::parse(): the command lines that set --iface and --exclude-iface
IfaceCommandLines ==
    {[DefaultArgs EXCEPT !.iface = i, !.exclude_iface = e] :
        i \in IfaceLists, e \in ExcludeLists}

\* ClientConfig::default()
ClientConfigDefault == [ip_info |-> None, sys_info |-> None]

\* StatRequest { ..Default::default() } with every field at its default
StatRequestDefault ==
    [name |-> "", gid |-> "", alias |-> "", frame |-> "",
     online4 |-> FALSE, online6 |-> FALSE, vnstat |-> FALSE, weight |-> 0,
     notify |-> FALSE, version |-> "", type |-> "", location |-> "",
     latest_ts |-> 0, cpu |-> 0, ip_info |-> None, sys_info |-> None]

\* no call of skip_iface yet
NoCall == [called |-> FALSE, name |-> <<>>, skip |-> FALSE]

NoRequest == [url |-> <<>>, auth_user |-> "", auth_pass |-> "", timeout |-> 0,
              content_type |-> "", ssr_auth |-> "", body |-> None]

VARIABLES
    cli,          \* the command line as parsed (never changes)
    args,         \* `let mut args`
    G_CONFIG,     \* the shared cache
    stat_base,    \* the static host template
    pc,           \* position of the main thread
    resolved,     \* outcome of to_socket_addrs in http_report
    now,          \* wall clock, milliseconds since the epoch
    ticks,        \* loop iterations started on either channel
    stat_rt,      \* the record assembled by the latest tick
    request,      \* the request built by the latest push tick
    requests,     \* number of requests handed to tokio::spawn
    slept,        \* duration of the latest thread::sleep
    tasks,        \* tasks[k]: state of the delivery spawned by tick k
    refresh_pc,   \* position of the refresh_ip_info task
    lookups,      \* geolocation lookups issued
    last_ok,      \* result of the most recent successful lookup
    last_lookup,  \* result of the most recent lookup
    network,      \* what status::get_network() reported (nothing before)
    interval_first, \* the interval of refresh_ip_info has not ticked yet
    waited,       \* seconds the latest interval.tick() suspended the task
    uptime,       \* monotonic clock (Instant), milliseconds
    spawned,      \* spawned[k]: monotonic time at which delivery k started
    lock,         \* holder of the Mutex of G_CONFIG
    ifc           \* the latest call of skip_iface: its name and its result

vars == <<cli, args, G_CONFIG, stat_base, pc, resolved, now, ticks, stat_rt,
          request, requests, slept, tasks, refresh_pc, lookups, last_ok,
          last_lookup, network, interval_first, waited, uptime, spawned,
          lock, ifc>>

\* the process runs as long as main has neither returned nor panicked
Alive == pc \notin {"exited", "panicked"}

\* the state at the entry of main, the command line aside
Boot ==
    /\ args = cli
    /\ G_CONFIG = ClientConfigDefault
    /\ stat_base = StatRequestDefault
    /\ pc = "main"
    /\ resolved = [domain |-> <<>>, result |-> "pending"]
    /\ now = 0
    /\ ticks = 0
    /\ stat_rt = StatRequestDefault
    /\ request = NoRequest
    /\ requests = 0
    /\ slept = 0
    /\ tasks = <<>>
    /\ refresh_pc = "none"
    /\ lookups = 0
    /\ last_ok = None
    /\ last_lookup = None
    /\ network = <<FALSE, FALSE>>
    /\ interval_first = TRUE
    /\ waited = 0
    /\ uptime = 0
    /\ spawned = <<>>
    /\ lock = "none"
    /\ ifc = NoCall

Init ==
    /\ cli \in CommandLines
    /\ Boot

InitIface ==
    /\ cli \in IfaceCommandLines
    /\ Boot

\* ---------------------------------------------------- interface filter
\* e.trim().is_empty()
IsBlank(e) == \A i \in 1..Len(e) : e[i] = " "

\* Vec::retain(|e| !e.trim().is_empty())
retain(list) == SelectSeq(list, LAMBDA e : ~IsBlank(e))

\* main: both interface lists lose their blank entries
retain_args(a) ==
    [a EXCEPT !.iface = retain(a.iface),
              !.exclude_iface = retain(a.exclude_iface)]

\* variant of skip_iface: an include entry matches as a substring
skip_iface_contains(name, a) ==
    IF a.iface # <<>>
    THEN ~(\E i \in 1..Len(a.iface) : Contains(name, a.iface[i]))
    ELSE \E j \in 1..Len(a.exclude_iface) : Contains(name, a.exclude_iface[j])

\* skip_iface
skip_iface(name, a) ==
    IF a.iface # <<>>
    THEN IF \E i \in 1..Len(a.iface) : name = a.iface[i]
         THEN FALSE
         ELSE TRUE
    ELSE IF \E j \in 1..Len(a.exclude_iface) : Contains(name, a.exclude_iface[j])
         THEN TRUE
         ELSE FALSE

\* ------------------------------------------------------------ sampling
\* status::sample / sys_info::sample: overwrites the dynamic metrics of the
\* record with the samplers' latest values
sample(stat, cpu) == [stat EXCEPT !.cpu = cpu]

\* SystemTime::now().duration_since(UNIX_EPOCH).unwrap().as_secs()
as_secs(ms) == ms \div 1000

\* variant of sample_all: the cache is copied into the record whatever
\* disable_extra says
sample_all_unconditional(a, base, cache, ms, cpu) ==
    LET s1 == sample(base, cpu)
        s2 == [s1 EXCEPT !.latest_ts = as_secs(ms)]
        s3 == IF cache.ip_info # None
              THEN [s2 EXCEPT !.ip_info = cache.ip_info]
              ELSE s2
        s4 == IF cache.sys_info # None
              THEN [s3 EXCEPT !.sys_info = cache.sys_info]
              ELSE s3
    IN  s4

\* variant of sample_all: the system descriptor is copied inside the branch
\* that copies the IP info
sample_all_nested(a, base, cache, ms, cpu) ==
    LET s1 == sample(base, cpu)
        s2 == [s1 EXCEPT !.latest_ts = as_secs(ms)]
        s3 == IF ~a.disable_extra /\ cache.ip_info # None
              THEN [s2 EXCEPT !.ip_info = cache.ip_info]
              ELSE s2
        s4 == IF ~a.disable_extra /\ cache.ip_info # None /\ cache.sys_info # None
              THEN [s3 EXCEPT !.sys_info = cache.sys_info]
              ELSE s3
    IN  s4

\* sample_all: the record of one tick, from the template `base`, the cache
\* `cache`, the wall clock `ms` and the samplers' value `cpu`
sample_all(a, base, cache, ms, cpu) ==
    LET s1 == sample(base, cpu)
        s2 == [s1 EXCEPT !.latest_ts = as_secs(ms)]
        s3 == IF ~a.disable_extra /\ cache.ip_info # None
              THEN [s2 EXCEPT !.ip_info = cache.ip_info]
              ELSE s2
        s4 == IF ~a.disable_extra /\ cache.sys_info # None
              THEN [s3 EXCEPT !.sys_info = cache.sys_info]
              ELSE s3
    IN  s4

\* ------------------------------------------------------------- startup
\* main: the template built from the arguments, the connectivity probe
\* `net` = (ipv4, ipv6) and the generated system id
build_stat_base(a, net, sys_id) ==
    LET b0 == [StatRequestDefault EXCEPT
                  !.name = a.user, !.frame = "data",
                  !.online4 = net[1], !.online6 = net[2],
                  !.vnstat = a.vnstat, !.weight = a.weight,
                  !.notify = TRUE, !.version = PkgVersion]
        b1 == IF a.gid # "" THEN [b0 EXCEPT !.gid = a.gid] ELSE b0
        b2 == IF a.gid # "" /\ b1.name = "h1"
              THEN [b1 EXCEPT !.name = sys_id] ELSE b1
        b3 == IF a.gid # "" /\ a.alias # "unknown"
              THEN [b2 EXCEPT !.alias = a.alias] ELSE b2
        b4 == IF a.disable_notify THEN [b3 EXCEPT !.notify = FALSE] ELSE b3
        b5 == IF a.host_type # "" THEN [b4 EXCEPT !.type = a.host_type] ELSE b4
        b6 == IF a.location # "" THEN [b5 EXCEPT !.location = a.location] ELSE b5
    IN  b6

\* main: `args.alias = stat_base.name` when grouped and the alias is the
\* placeholder; the arguments are otherwise left alone
update_args(a, base) ==
    IF a.gid # "" /\ a.alias = "unknown"
    THEN [a EXCEPT !.alias = base.name]
    ELSE a

\* main, up to the channel selection
Main ==
    /\ pc = "main"
    /\ IF args.ip_info
       THEN \* prints the lookup result (or returns its error) and exits
            /\ pc' = "exited"
            /\ args' = retain_args(args)
            /\ UNCHANGED <<G_CONFIG, stat_base, refresh_pc, network>>
       ELSE \E is_supported \in BOOLEAN, net \in NetworkProbes :
            IF ~is_supported
            THEN /\ pc' = "panicked"
                 /\ args' = retain_args(args)
                 /\ UNCHANGED <<G_CONFIG, stat_base, refresh_pc, network>>
            ELSE /\ G_CONFIG' = [G_CONFIG EXCEPT !.sys_info = SysInfoVal]
                 /\ refresh_pc' = IF ~args.disable_extra THEN "lookup" ELSE "none"
                 /\ network' = net
                 /\ stat_base' = build_stat_base(args, net, SysIdVal)
                 /\ args' = update_args(retain_args(args),
                                         build_stat_base(args, net, SysIdVal))
                 /\ pc' = "select"
    /\ UNCHANGED <<cli, resolved, now, ticks, stat_rt, request, requests,
                   slept, tasks, lookups, last_ok,
                   last_lookup>>
    /\ UNCHANGED <<interval_first, waited, uptime, spawned, lock, ifc>>

P_http == <<"h", "t", "t", "p">>
P_https == <<"h", "t", "t", "p", "s">>
P_grpc == <<"g", "r", "p", "c">>
Port443 == <<":", "4", "4", "3">>
Port80 == <<":", "8", "0">>

\* main: the channel chosen from the address
select_channel(addr) ==
    IF StartsWith(addr, P_http) THEN "http"
    ELSE IF StartsWith(addr, P_grpc) THEN "grpc"
    ELSE "invalid"

SelectChannel ==
    /\ pc = "select"
    /\ pc' = CASE select_channel(args.addr) = "http" -> "http_init"
               [] select_channel(args.addr) = "grpc" -> "grpc"
               [] OTHER -> "exited"
    /\ UNCHANGED <<cli, args, G_CONFIG, stat_base, resolved, now, ticks,
                   stat_rt, request, requests, slept, tasks, refresh_pc,
                   lookups, last_ok,
                   last_lookup>>
    /\ UNCHANGED <<network, interval_first, waited, uptime, spawned, lock, ifc>>

\* http_report: host[:port] handed to the resolver
http_domain(addr) ==
    LET d == Split(addr, "/")[3]
    IN  IF ~ContainsChar(d, ":")
        THEN IF Contains(addr, P_https) THEN d \o Port443 ELSE d \o Port80
        ELSE d

\* variant of after_init: a resolution error is logged and the loop entered
after_init_ignores_err(r, built) ==
    IF built THEN "tick" ELSE "exited"

\* http_report: where it goes after `to_socket_addrs()?` and `build()?`
after_init(r, built) ==
    IF r = "err" THEN "exited"
    ELSE IF built THEN "tick" ELSE "exited"

\* variant of raise_online: the flags are set from the family of the
\* resolved address alone
raise_online_overwrites(base, r) ==
    [base EXCEPT !.online4 = (r = "v4"), !.online6 = (r = "v6")]

\* http_report: `if ipv4 { online4 = true }`, `if ipv6 { online6 = true }`
\* for the first resolved address, of family r
raise_online(base, r) ==
    [base EXCEPT !.online4 = IF r = "v4" THEN TRUE ELSE @,
                 !.online6 = IF r = "v6" THEN TRUE ELSE @]

\* http_report before its loop: resolve the destination, raise the
\* connectivity flags, build the HTTP client
HttpInit ==
    /\ pc = "http_init"
    /\ IF Len(Split(args.addr, "/")) < 3
       THEN /\ pc' = "panicked"
            /\ UNCHANGED <<resolved, stat_base>>
       ELSE \E r \in {"err", "v4", "v6"}, built \in BOOLEAN :
            /\ resolved' = [domain |-> http_domain(args.addr), result |-> r]
            /\ pc' = after_init(r, built)
            /\ stat_base' = raise_online(stat_base, r)
    /\ UNCHANGED <<cli, args, G_CONFIG, now, ticks, stat_rt, request,
                   requests, slept, tasks, refresh_pc, lookups, last_ok,
                   last_lookup>>
    /\ UNCHANGED <<network, interval_first, waited, uptime, spawned, lock, ifc>>

\* -------------------------------------------------------- push channel
\* serde_json::to_string(&stat_rt): the record is plain data (numbers,
\* strings, booleans, optional nested plain records), for which the
\* serialiser has no failing case
serde_json_to_string(rec) == [ok |-> TRUE, data |-> [enc |-> "json", rec |-> rec]]

\* prost::Message::encode_to_vec
encode_to_vec(rec) == [enc |-> "protobuf", rec |-> rec]

\* variant of encode_body: the json branch forgets to set the content type
encode_body_default_ct(a, rec) ==
    IF a.json
    THEN [body |-> serde_json_to_string(rec).data, content_type |-> "application/octet-stream"]
    ELSE [body |-> encode_to_vec(rec), content_type |-> "application/octet-stream"]

\* http_report: body and content type of one tick
encode_body(a, rec) ==
    IF a.json
    THEN [body |-> serde_json_to_string(rec).data, content_type |-> "application/json"]
    ELSE [body |-> encode_to_vec(rec), content_type |-> "application/octet-stream"]

\* variant of credentials: the user id is sent even when a group id is set
credentials_user_only(a) ==
    IF a.gid = ""
    THEN [auth_user |-> a.user, auth_pass |-> a.pass, ssr_auth |-> "single"]
    ELSE [auth_user |-> a.user, auth_pass |-> a.pass, ssr_auth |-> "group"]

\* http_report: credential pair and auth-mode header
credentials(a) ==
    IF a.gid = ""
    THEN [auth_user |-> a.user, auth_pass |-> a.pass, ssr_auth |-> "single"]
    ELSE [auth_user |-> a.gid, auth_pass |-> a.pass, ssr_auth |-> "group"]

\* http_report: the request of one tick
build_request(a, rec) ==
    LET e == encode_body(a, rec)
        c == credentials(a)
    IN  [url |-> a.addr, auth_user |-> c.auth_user, auth_pass |-> c.auth_pass,
         timeout |-> REQUEST_TIMEOUT_S, content_type |-> e.content_type,
         ssr_auth |-> c.ssr_auth, body |-> e.body]

\* variant of Tick: the template itself is sampled into, without a clone
Tick_in_place ==
    /\ pc = "tick"
    /\ ticks < MaxTicks
    /\ \E cpu \in CpuVals :
          LET rec == sample_all(args, stat_base, G_CONFIG, now, cpu)
          IN  /\ ticks' = ticks + 1
              /\ stat_rt' = rec
              /\ stat_base' = rec
              /\ IF args.json /\ ~serde_json_to_string(rec).ok
                 THEN \* `?`: http_report returns, main returns
                      /\ pc' = "exited"
                      /\ UNCHANGED <<request, requests, tasks, spawned>>
                 ELSE /\ request' = build_request(args, rec)
                      /\ requests' = requests + 1
                      /\ tasks' = Append(tasks, "inflight")
                      /\ spawned' = Append(spawned, uptime)
                      /\ pc' = "sleep"
    /\ UNCHANGED <<cli, args, G_CONFIG, resolved, now, slept,
                   refresh_pc, lookups, last_ok,
                   last_lookup>>
    /\ UNCHANGED <<network, interval_first, waited, uptime, lock, ifc>>

\* one iteration of the loop of http_report, up to the sleep
Tick ==
    /\ pc = "tick"
    /\ ticks < MaxTicks
    /\ \E cpu \in CpuVals :
          LET rec == sample_all(args, stat_base, G_CONFIG, now, cpu)
          IN  /\ ticks' = ticks + 1
              /\ stat_rt' = rec
              /\ IF args.json /\ ~serde_json_to_string(rec).ok
                 THEN \* `?`: http_report returns, main returns
                      /\ pc' = "exited"
                      /\ UNCHANGED <<request, requests, tasks, spawned>>
                 ELSE /\ request' = build_request(args, rec)
                      /\ requests' = requests + 1
                      /\ tasks' = Append(tasks, "inflight")
                      /\ spawned' = Append(spawned, uptime)
                      /\ pc' = "sleep"
    /\ UNCHANGED <<cli, args, G_CONFIG, stat_base, resolved, now, slept,
                   refresh_pc, lookups, last_ok,
                   last_lookup>>
    /\ UNCHANGED <<network, interval_first, waited, uptime, lock, ifc>>

\* variant of Sleep: the loop joins the task it spawned before sleeping
Sleep_joins ==
    /\ pc = "sleep"
    /\ tasks[ticks] # "inflight"
    /\ now' = now + INTERVAL_MS
    /\ uptime' = uptime + INTERVAL_MS
    /\ slept' = INTERVAL_MS
    /\ pc' = "tick"
    /\ UNCHANGED <<cli, args, G_CONFIG, stat_base, resolved, ticks, stat_rt,
                   request, requests, tasks, refresh_pc, lookups, last_ok,
                   last_lookup>>
    /\ UNCHANGED <<network, interval_first, waited, spawned, lock, ifc>>

\* thread::sleep(Duration::from_millis(INTERVAL_MS))
Sleep ==
    /\ pc = "sleep"
    /\ now' = now + INTERVAL_MS
    /\ uptime' = uptime + INTERVAL_MS
    /\ slept' = INTERVAL_MS
    /\ pc' = "tick"
    /\ UNCHANGED <<cli, args, G_CONFIG, stat_base, resolved, ticks, stat_rt,
                   request, requests, tasks, refresh_pc, lookups, last_ok,
                   last_lookup>>
    /\ UNCHANGED <<network, interval_first, waited, spawned, lock, ifc>>

\* text of the address before its first ':'
Scheme(addr) ==
    IF ContainsChar(addr, ":") THEN SubSeq(addr, 1, FirstIdx(addr, ":") - 1) ELSE addr

\* the HTTP client only carries out requests to http and https URLs; any
\* other URL makes send() return an error
url_allowed(url) == Scheme(url) \in {P_http, P_https}

\* variant of Complete: a failed delivery is sent again
Complete_retries(k) ==
    /\ Alive
    /\ k \in 1..Len(tasks)
    /\ tasks[k] = "inflight"
    /\ \E outcome \in {"ok", "err"} :
          /\ outcome = "ok" => url_allowed(args.addr)
          /\ tasks' = [tasks EXCEPT ![k] = outcome]
          /\ requests' = IF outcome = "err" THEN requests + 1 ELSE requests
    /\ UNCHANGED <<cli, args, G_CONFIG, stat_base, pc, resolved, now, ticks,
                   stat_rt, request, slept, refresh_pc, lookups,
                   last_ok, last_lookup>>
    /\ UNCHANGED <<network, interval_first, waited, uptime, spawned, lock, ifc>>

\* variant of Complete: a failed delivery ends the process
Complete_escalates(k) ==
    /\ Alive
    /\ k \in 1..Len(tasks)
    /\ tasks[k] = "inflight"
    /\ \E outcome \in {"ok", "err"} :
          /\ outcome = "ok" => url_allowed(args.addr)
          /\ tasks' = [tasks EXCEPT ![k] = outcome]
          /\ pc' = IF outcome = "err" THEN "exited" ELSE pc
    /\ UNCHANGED <<cli, args, G_CONFIG, stat_base, resolved, now, ticks,
                   stat_rt, request, requests, slept, refresh_pc, lookups,
                   last_ok, last_lookup>>
    /\ UNCHANGED <<network, interval_first, waited, uptime, spawned, lock, ifc>>

\* the spawned delivery task of tick k reaches its match arm: a response
\* ("ok") or an error (timeout, refused connection, ...; "err"); both arms log
Complete(k) ==
    /\ Alive
    /\ k \in 1..Len(tasks)
    /\ tasks[k] = "inflight"
    /\ \E outcome \in {"ok", "err"} :
          /\ outcome = "ok" => url_allowed(args.addr)
          /\ tasks' = [tasks EXCEPT ![k] = outcome]
    /\ UNCHANGED <<cli, args, G_CONFIG, stat_base, pc, resolved, now, ticks,
                   stat_rt, request, requests, slept, refresh_pc, lookups,
                   last_ok,
                   last_lookup>>
    /\ UNCHANGED <<network, interval_first, waited, uptime, spawned, lock, ifc>>

\* --------------------------------------------------------- RPC channel
\* grpc::report: one record assembled and submitted to the remote call
GrpcReport ==
    /\ pc = "grpc"
    /\ ticks < MaxTicks
    /\ \E cpu \in CpuVals :
          stat_rt' = sample_all(args, stat_base, G_CONFIG, now, cpu)
    /\ ticks' = ticks + 1
    /\ now' = now + INTERVAL_MS
    /\ uptime' = uptime + INTERVAL_MS
    /\ UNCHANGED <<cli, args, G_CONFIG, stat_base, pc, resolved, request,
                   requests, slept, tasks, refresh_pc, lookups, last_ok,
                   last_lookup>>
    /\ UNCHANGED <<network, interval_first, waited, spawned, lock, ifc>>

\* -------------------------------------------------------- refresh loop
\* variant of RefreshLookup: a failed lookup resets the cached IP info
RefreshLookup_clears ==
    /\ Alive
    /\ refresh_pc = "lookup"
    /\ lookups < MaxLookups
    /\ lookups' = lookups + 1
    /\ \E r \in IpInfos \cup {"Err"} :
          /\ last_lookup' = r
          /\ IF r # "Err"
             THEN /\ G_CONFIG' = [G_CONFIG EXCEPT !.ip_info = r]
                  /\ last_ok' = r
             ELSE /\ G_CONFIG' = [G_CONFIG EXCEPT !.ip_info = None]
                  /\ UNCHANGED last_ok
    /\ refresh_pc' = "wait"
    /\ UNCHANGED <<cli, args, stat_base, pc, resolved, now, ticks, stat_rt,
                   request, requests, slept, tasks>>
    /\ UNCHANGED <<network, interval_first, waited, uptime, spawned, lock, ifc>>

\* refresh_ip_info: one lookup and its match arms
RefreshLookup ==
    /\ Alive
    /\ refresh_pc = "lookup"
    /\ lookups < MaxLookups
    /\ lookups' = lookups + 1
    /\ \E r \in IpInfos \cup {"Err"} :
          /\ last_lookup' = r
          /\ IF r # "Err"
             THEN /\ G_CONFIG' = [G_CONFIG EXCEPT !.ip_info = r]
                  /\ last_ok' = r
             ELSE UNCHANGED <<G_CONFIG, last_ok>>
    /\ refresh_pc' = "wait"
    /\ UNCHANGED <<cli, args, stat_base, pc, resolved, now, ticks, stat_rt,
                   request, requests, slept, tasks>>
    /\ UNCHANGED <<network, interval_first, waited, uptime, spawned, lock, ifc>>

\* tokio::time::interval(period).tick(): the first tick of an interval
\* completes at once, every later tick one period after the one before.
\* The seconds the call suspends its task
interval_tick(first) == IF first THEN 0 ELSE REFRESH_PERIOD_S

\* refresh_ip_info: interval.tick().await
RefreshWait ==
    /\ Alive
    /\ refresh_pc = "wait"
    /\ refresh_pc' = "lookup"
    /\ waited' = interval_tick(interval_first)
    /\ interval_first' = FALSE
    /\ UNCHANGED <<cli, args, G_CONFIG, stat_base, pc, resolved, now, ticks,
                   stat_rt, request, requests, slept, tasks, lookups, last_ok,
                   last_lookup>>
    /\ UNCHANGED <<network, uptime, spawned, lock, ifc>>

Next ==
    \/ Main
    \/ SelectChannel
    \/ HttpInit
    \/ Tick
    \/ Sleep
    \/ \E k \in 1..MaxTicks + 1 : Complete(k)
    \/ GrpcReport
    \/ RefreshLookup
    \/ RefreshWait

Spec == Init /\ [][Next]_vars

\* ------------------------------------------------ the wall clock is set
\* SystemTime::now() reads the system's wall clock, which is not monotonic:
\* an administrator or a time-synchronisation step may set it back to any
\* earlier second (never before the epoch here, so duration_since succeeds)
ClockAdjust ==
    /\ Alive
    /\ \E t \in 0..(as_secs(now) - 1) : now' = t * 1000
    /\ UNCHANGED <<cli, args, G_CONFIG, stat_base, pc, resolved, ticks, stat_rt,
                   request, requests, slept, tasks, refresh_pc, lookups,
                   last_ok, last_lookup, network, interval_first, waited,
                   uptime, spawned, lock, ifc>>

\* ------------------------------------- the cache lock, step by step
\* Spec takes each critical section of G_CONFIG in one step. SpecLock splits
\* the tick and the lookup at every lock() so that a thread waiting for the
\* Mutex is a state. No thread panics while it holds the Mutex, so lock()
\* never returns the Err of a poisoned Mutex.
LockCommandLines ==
    {a \in CommandLines :
        \A f \in DOMAIN a \ {"disable_extra", "json"} : a[f] = DefaultArgs[f]}

InitLock ==
    /\ cli \in LockCommandLines
    /\ Boot

\* sample_all: the cached values present are cloned into the record
copy_cache(rec, cache) ==
    LET s3 == IF cache.ip_info # None
              THEN [rec EXCEPT !.ip_info = cache.ip_info]
              ELSE rec
        s4 == IF cache.sys_info # None
              THEN [s3 EXCEPT !.sys_info = cache.sys_info]
              ELSE s3
    IN  s4

\* http_report: the record is encoded and its delivery spawned
Dispatch(rec) ==
    IF args.json /\ ~serde_json_to_string(rec).ok
    THEN /\ pc' = "exited"
         /\ UNCHANGED <<request, requests, tasks, spawned>>
    ELSE /\ request' = build_request(args, rec)
         /\ requests' = requests + 1
         /\ tasks' = Append(tasks, "inflight")
         /\ spawned' = Append(spawned, uptime)
         /\ pc' = "sleep"

\* sample_all up to the lock(): template cloned, metrics sampled, timestamp
\* set; with disable_extra the record is complete and is dispatched
TickSample ==
    /\ pc = "tick"
    /\ ticks < MaxTicks
    /\ ticks' = ticks + 1
    /\ \E cpu \in CpuVals :
          LET s2 == [sample(stat_base, cpu) EXCEPT !.latest_ts = as_secs(now)]
          IN  /\ stat_rt' = s2
              /\ IF args.disable_extra
                 THEN Dispatch(s2)
                 ELSE /\ pc' = "tick_lock"
                      /\ UNCHANGED <<request, requests, tasks, spawned>>
    /\ UNCHANGED <<cli, args, G_CONFIG, stat_base, resolved, now, slept,
                   refresh_pc, lookups, last_ok, last_lookup, network,
                   interval_first, waited, uptime, lock, ifc>>

\* variant of TickAcquire: try_lock, and a record without the cached values
\* when the Mutex is taken
TickAcquire_try ==
    /\ pc = "tick_lock"
    /\ IF lock = "none"
       THEN /\ lock' = "sched"
            /\ pc' = "tick_cs"
            /\ UNCHANGED <<request, requests, tasks, spawned>>
       ELSE /\ Dispatch(stat_rt)
            /\ UNCHANGED lock
    /\ UNCHANGED <<cli, args, G_CONFIG, stat_base, resolved, now, ticks,
                   stat_rt, slept, refresh_pc, lookups,
                   last_ok, last_lookup, network, interval_first, waited,
                   uptime, ifc>>

\* sample_all: G_CONFIG.lock() returns once no other thread holds the Mutex
TickAcquire ==
    /\ pc = "tick_lock"
    /\ lock = "none"
    /\ lock' = "sched"
    /\ pc' = "tick_cs"
    /\ UNCHANGED <<cli, args, G_CONFIG, stat_base, resolved, now, ticks,
                   stat_rt, request, requests, slept, tasks, refresh_pc, lookups,
                   last_ok, last_lookup, network, interval_first, waited,
                   uptime, spawned, ifc>>

\* sample_all under the guard, the guard dropped at the end of the block; then
\* http_report up to the sleep
TickCopy ==
    /\ pc = "tick_cs"
    /\ lock = "sched"
    /\ lock' = "none"
    /\ stat_rt' = copy_cache(stat_rt, G_CONFIG)
    /\ Dispatch(copy_cache(stat_rt, G_CONFIG))
    /\ UNCHANGED <<cli, args, G_CONFIG, stat_base, resolved, now, ticks, slept,
                   refresh_pc, lookups, last_ok, last_lookup, network,
                   interval_first, waited, uptime, ifc>>

\* refresh_ip_info: the lookup, awaited without the Mutex; the Err arm logs
RefreshFetch ==
    /\ Alive
    /\ refresh_pc = "lookup"
    /\ lookups < MaxLookups
    /\ lookups' = lookups + 1
    /\ \E r \in IpInfos \cup {"Err"} :
          /\ last_lookup' = r
          /\ refresh_pc' = IF r = "Err" THEN "wait" ELSE "store_lock"
    /\ UNCHANGED <<cli, args, G_CONFIG, stat_base, pc, resolved, now, ticks,
                   stat_rt, request, requests, slept, tasks, last_ok, network,
                   interval_first, waited, uptime, spawned, lock, ifc>>

\* refresh_ip_info, Ok arm: G_CONFIG.lock()
RefreshAcquire ==
    /\ Alive
    /\ refresh_pc = "store_lock"
    /\ lock = "none"
    /\ lock' = "refresh"
    /\ refresh_pc' = "store"
    /\ UNCHANGED <<cli, args, G_CONFIG, stat_base, pc, resolved, now, ticks,
                   stat_rt, request, requests, slept, tasks, lookups, last_ok,
                   last_lookup, network, interval_first, waited, uptime,
                   spawned, ifc>>

\* variant of RefreshStore: the guard outlives the block and is still held
\* while the task waits for its interval
RefreshStore_holds ==
    /\ Alive
    /\ refresh_pc = "store"
    /\ lock = "refresh"
    /\ G_CONFIG' = [G_CONFIG EXCEPT !.ip_info = last_lookup]
    /\ last_ok' = last_lookup
    /\ refresh_pc' = "wait"
    /\ UNCHANGED <<cli, args, stat_base, pc, resolved, now, ticks, stat_rt,
                   request, requests, slept, tasks, lookups, last_lookup,
                   network, interval_first, waited, uptime, spawned, lock, ifc>>

\* refresh_ip_info, Ok arm: o.ip_info = Some(ip_info), the guard dropped
RefreshStore ==
    /\ Alive
    /\ refresh_pc = "store"
    /\ lock = "refresh"
    /\ G_CONFIG' = [G_CONFIG EXCEPT !.ip_info = last_lookup]
    /\ last_ok' = last_lookup
    /\ lock' = "none"
    /\ refresh_pc' = "wait"
    /\ UNCHANGED <<cli, args, stat_base, pc, resolved, now, ticks, stat_rt,
                   request, requests, slept, tasks, lookups, last_lookup,
                   network, interval_first, waited, uptime, spawned, ifc>>

NextLock ==
    \/ Main
    \/ SelectChannel
    \/ HttpInit
    \/ TickSample
    \/ TickAcquire
    \/ TickCopy
    \/ Sleep
    \/ \E k \in 1..MaxTicks + 1 : Complete(k)
    \/ RefreshFetch
    \/ RefreshAcquire
    \/ RefreshStore
    \/ RefreshWait

\* the push channel with every lock() and every release a step of its own
SpecLock == InitLock /\ [][NextLock]_vars

\* ------------------------------------- the deliveries and their timeout
\* Spec lets a delivery stay in flight for any length of time. SpecTimed
\* follows the monotonic clock: the request of a delivery carries
\* .timeout(3 s), so the task reaches its Err arm when that time is up.
TimedCommandLines == {a \in CommandLines : a.disable_extra}

InitTimed ==
    /\ cli \in TimedCommandLines
    /\ Boot

\* milliseconds after which the send() of a delivery gives up
TimeoutMs == REQUEST_TIMEOUT_S * 1000

\* one iteration of the loop of http_report, up to the sleep
TimedTick ==
    /\ pc = "tick"
    /\ ticks < TimedTicks
    /\ ticks' = ticks + 1
    /\ \E cpu \in CpuVals :
          LET rec == sample_all(args, stat_base, G_CONFIG, now, cpu)
          IN  /\ stat_rt' = rec
              /\ Dispatch(rec)
    /\ UNCHANGED <<cli, args, G_CONFIG, stat_base, resolved, now, slept,
                   refresh_pc, lookups, last_ok, last_lookup, network,
                   interval_first, waited, uptime, lock, ifc>>

\* the deliveries after the clock has reached `t`: one whose timeout lies
\* before `t` has ended with the timeout error
expire(ts, t) ==
    [k \in 1..Len(ts) |->
        IF ts[k] = "inflight" /\ spawned[k] + TimeoutMs < t
        THEN "timeout"
        ELSE ts[k]]

\* variant of TimedSleep: the requests are sent without a timeout
TimedSleep_no_timeout ==
    /\ pc = "sleep"
    /\ now' = now + INTERVAL_MS
    /\ uptime' = uptime + INTERVAL_MS
    /\ slept' = INTERVAL_MS
    /\ pc' = "tick"
    /\ UNCHANGED <<cli, args, G_CONFIG, stat_base, resolved, ticks, stat_rt,
                   request, requests, tasks, refresh_pc, lookups, last_ok,
                   last_lookup, network, interval_first, waited, spawned, lock,
                   ifc>>

\* thread::sleep(Duration::from_millis(INTERVAL_MS)), and the timeouts that
\* expire while the main thread sleeps
TimedSleep ==
    /\ pc = "sleep"
    /\ now' = now + INTERVAL_MS
    /\ uptime' = uptime + INTERVAL_MS
    /\ slept' = INTERVAL_MS
    /\ tasks' = expire(tasks, uptime + INTERVAL_MS)
    /\ pc' = "tick"
    /\ UNCHANGED <<cli, args, G_CONFIG, stat_base, resolved, ticks, stat_rt,
                   request, requests, refresh_pc, lookups, last_ok,
                   last_lookup, network, interval_first, waited, spawned, lock,
                   ifc>>

NextTimed ==
    \/ Main
    \/ SelectChannel
    \/ HttpInit
    \/ TimedTick
    \/ TimedSleep
    \/ \E k \in 1..TimedTicks + 1 : Complete(k)

\* the push channel without auxiliary reporting, the timeouts followed
SpecTimed == InitTimed /\ [][NextTimed]_vars

\* ------------------------------------------- the filter on its inputs
\* a sampler asks whether the interface `name` is left out
SkipIfaceCall(name) ==
    /\ pc \notin {"main", "exited", "panicked"}
    /\ ifc' = [called |-> TRUE, name |-> name, skip |-> skip_iface(name, args)]
    /\ UNCHANGED <<cli, args, G_CONFIG, stat_base, pc, resolved, now, ticks,
                   stat_rt, request, requests, slept, tasks, refresh_pc,
                   lookups, last_ok, last_lookup, network, interval_first,
                   waited, uptime, spawned, lock>>

NextIface ==
    \/ Main
    \/ \E name \in IfaceNames : SkipIfaceCall(name)

\* startup and the samplers' calls of skip_iface, over the interface options
SpecIface == InitIface /\ [][NextIface]_vars

NextClock ==
    \/ Next
    \/ ClockAdjust

\* the program on a host whose wall clock may be set back
SpecClock == Init /\ [][NextClock]_vars

\* ------------------------------------------------------------- claims
OnPush == pc \in {"tick", "sleep"}

\* C1: the scheduler never waits for a delivery. Whatever the state of the
\* deliveries spawned so far (in flight, succeeded, failed), a scheduler that
\* has dispatched can start its sleep, and a scheduler that has slept can
\* start the next tick.
C1_SchedulerNeverWaits ==
    /\ pc = "sleep" => ENABLED Sleep
    /\ pc = "tick" /\ ticks < MaxTicks => ENABLED Tick

\* tick k+1 has happened while the delivery of tick k is still in flight
C1_Witness ==
    \E k \in 1..Len(tasks) : k < ticks /\ tasks[k] = "inflight"

\* C2: a delivery outcome is only logged. On the push channel the number of
\* requests equals the number of ticks, a request is only ever issued by a
\* tick and carries the record of that tick, and encoding, credentials and
\* sleep duration of a later tick equal those of the earlier ones.
C2_OneRequestPerTick ==
    [][/\ OnPush' => requests' = ticks' /\ Len(tasks') = ticks'
       /\ ticks' = ticks => requests' = requests /\ request' = request
       /\ requests' # requests =>
             /\ requests' = requests + 1
             /\ ticks' = ticks + 1
             /\ request'.body.rec = stat_rt'
             /\ requests > 0 =>
                   /\ request'.body.enc = request.body.enc
                   /\ request'.content_type = request.content_type
                   /\ request'.auth_user = request.auth_user
                   /\ request'.auth_pass = request.auth_pass
                   /\ request'.ssr_auth = request.ssr_auth
                   /\ request'.url = request.url
       /\ slept # 0 => slept' = slept]_vars

\* three ticks, the first two deliveries failed, one request per tick
C2_Witness ==
    /\ OnPush
    /\ ticks = 3 /\ requests = 3
    /\ tasks[1] = "err" /\ tasks[2] = "err"
    /\ slept = INTERVAL_MS

C4_Credentials ==
    requests > 0 =>
        /\ cli.gid # "" => request.auth_user = cli.gid /\ request.ssr_auth = "group"
        /\ cli.gid = "" => request.auth_user = cli.user /\ request.ssr_auth = "single"
        /\ request.auth_pass = cli.pass

\* a second request has been built for a grouped host
C4_Witness ==
    requests >= 2 /\ cli.gid # "" /\ request.ssr_auth = "group"

\* C5: with auxiliary-info reporting disabled no record carries IP info or
\* sys info, whatever the cache holds.
C5_NoAuxWhenDisabled ==
    cli.disable_extra =>
        /\ stat_rt.ip_info = None /\ stat_rt.sys_info = None
        /\ requests > 0 => request.body.rec.ip_info = None
                           /\ request.body.rec.sys_info = None

\* a record has been assembled with reporting disabled while the cache holds
\* the sys info written at startup
C5_Witness ==
    /\ cli.disable_extra
    /\ ticks > 0 /\ requests > 0
    /\ G_CONFIG.sys_info # None

\* C6: the cached IP info is the result of the most recent successful lookup
\* (absent before the first success), a failed lookup leaves it as it was,
\* and the refresh loop never changes the cached sys info.
C6_ReplaceOnSuccessOnly ==
    [][/\ G_CONFIG'.ip_info = last_ok'
       /\ lookups' # lookups =>
             /\ G_CONFIG'.sys_info = G_CONFIG.sys_info
             /\ last_lookup' = "Err" => G_CONFIG'.ip_info = G_CONFIG.ip_info]_vars

\* a lookup has failed after an earlier one succeeded
C6_Witness ==
    /\ lookups >= 2
    /\ last_lookup = "Err"
    /\ last_ok # None
    /\ G_CONFIG.ip_info = last_ok

\* C7: with a group id and the alias at its placeholder, the alias of every
\* record sent is the host-identity string used as the record's name, neither
\* the placeholder nor empty.
C7_AliasMirrorsIdentity ==
    (cli.gid # "" /\ cli.alias = "unknown" /\ requests > 0) =>
        /\ request.body.rec.alias = request.body.rec.name
        /\ request.body.rec.alias \notin {"unknown", ""}

\* C8: scheme http or https selects the push channel, grpc the RPC channel,
\* any other scheme ends startup before any record is assembled or sent.
C8_ChannelByScheme ==
    LET sch == Scheme(cli.addr)
    IN  /\ pc \in {"http_init", "tick", "sleep"} => sch \in {P_http, P_https}
        /\ pc = "grpc" => sch = P_grpc
        /\ sch \notin {P_http, P_https, P_grpc} =>
              /\ pc \in {"main", "select", "exited", "panicked"}
              /\ ticks = 0 /\ requests = 0 /\ tasks = <<>>

\* C9: an unresolvable destination host ends http_report before the loop: no
\* record, no request, no delivery task.
C9_UnresolvableIsFatal ==
    resolved.result = "err" =>
        /\ pc = "exited"
        /\ ticks = 0 /\ requests = 0 /\ tasks = <<>>
        /\ stat_rt = StatRequestDefault /\ request = NoRequest

\* the resolution of the destination has failed
C9_Witness ==
    resolved.result = "err" /\ pc = "exited"

\* C10: the body and the content type of a request belong to the same
\* encoding, the one the json flag selects, and the body encodes the record
\* of the tick.
C10_EncodingMatchesContentType ==
    requests > 0 =>
        /\ request.body.rec = stat_rt
        /\ cli.json => request.body.enc = "json"
                       /\ request.content_type = "application/json"
        /\ ~cli.json => request.body.enc = "protobuf"
                        /\ request.content_type = "application/octet-stream"

\* a request has been built with the json flag set
C10_Witness ==
    requests > 0 /\ cli.json /\ request.content_type = "application/json"

\* C11: the timestamps of consecutive ticks are non-decreasing: the record of
\* tick k+1 carries a timestamp at least that of the record of tick k.
C11_TimestampsNonDecreasing ==
    [][pc = "tick" /\ ticks >= 1 /\ ticks' = ticks + 1
          => stat_rt'.latest_ts >= stat_rt.latest_ts]_vars

\* p occurs in s as a run of consecutive characters
IsSubstring(p, s) ==
    \E a \in 0..Len(s), b \in 0..Len(s) : a <= b /\ SubSeq(s, a + 1, b) = p

\* C12: with a non-empty include list an interface is sampled exactly when
\* its name equals an include entry, whatever the exclude list holds; with an
\* empty include list it is skipped exactly when its name contains an exclude
\* entry as a substring. (Neither list holds a blank entry once main has run.)
C12_SkipIface ==
    ifc.called =>
        /\ \A i \in 1..Len(args.iface) : ~IsBlank(args.iface[i])
        /\ \A j \in 1..Len(args.exclude_iface) : ~IsBlank(args.exclude_iface[j])
        /\ args.iface # <<>> =>
              (~ifc.skip <=> \E i \in 1..Len(args.iface) : args.iface[i] = ifc.name)
        /\ args.iface = <<>> =>
              (ifc.skip <=> \E j \in 1..Len(args.exclude_iface) :
                               IsSubstring(args.exclude_iface[j], ifc.name))

\* an interface whose name contains an include entry without being equal to
\* one is skipped, although no exclude entry matches it
C12_Witness ==
    /\ ifc.called
    /\ args.iface # <<>>
    /\ ifc.skip
    /\ \E i \in 1..Len(args.iface) : IsSubstring(args.iface[i], ifc.name)
    /\ ~\E j \in 1..Len(args.exclude_iface) :
            IsSubstring(args.exclude_iface[j], ifc.name)

\* C14: two lookups are never issued back to back: whenever a lookup other
\* than the first is issued, the wait that came before it suspended the
\* refresh loop for the whole period of 3600 seconds.
C14_HourBetweenLookups ==
    [][lookups >= 1 /\ lookups' = lookups + 1
          => waited = REFRESH_PERIOD_S]_vars

\* the scheduler is assembling the record of a tick
OnAssembling == pc \in {"tick", "tick_lock", "tick_cs"}

\* C13 as claimed: assembling never blocks on the cache. A tick that has
\* reached the read of the cache can go on at once, whether or not the
\* refresh loop is writing the cache at that moment.
C13_NeverBlocksOnCache ==
    pc = "tick_lock" => ENABLED TickAcquire

\* C13: assembling a record never fails, but it waits for the cache: the
\* tick goes on exactly when no writer holds the lock; a writer that holds it
\* can always finish its write; the read then copies the values the cache
\* holds at that moment, the record is dispatched and the loop reaches its
\* sleep. No step of the assembling ends the loop.
C13_WaitsForWriterThenReads ==
    /\ [](pc = "tick_lock" => (ENABLED TickAcquire <=> lock = "none"))
    /\ [](pc = "tick_lock" /\ lock # "none"
             => lock = "refresh" /\ ENABLED RefreshStore)
    /\ [](pc = "tick_cs" => ENABLED TickCopy)
    /\ [][pc = "tick_cs" /\ pc' # pc
             => /\ stat_rt'.ip_info = G_CONFIG.ip_info
                /\ stat_rt'.sys_info = G_CONFIG.sys_info
                /\ requests' = requests + 1
                /\ request'.body.rec = stat_rt'
                /\ pc' = "sleep"]_vars
    /\ [][OnAssembling => OnAssembling' \/ pc' = "sleep"]_vars

\* a tick waits at the lock while the refresh loop writes the cache
C13_Witness ==
    /\ pc = "tick_lock"
    /\ lock = "refresh"
    /\ G_CONFIG.ip_info # last_lookup

\* C15: the lock is held only inside a critical section, never at a
\* suspension point (the sleep of the scheduler, the lookup and the hourly
\* wait of the refresh loop); whoever holds it can release it at once, and a
\* free lock is granted to whoever asks: there is no deadlock.
C15_LockShortHeld ==
    /\ lock \in {"none", "sched", "refresh"}
    /\ lock = "sched" <=> pc = "tick_cs"
    /\ lock = "refresh" <=> refresh_pc = "store"
    /\ lock = "sched" => ENABLED TickCopy
    /\ Alive /\ lock = "refresh" => ENABLED RefreshStore
    /\ lock = "none" /\ pc = "tick_lock" => ENABLED TickAcquire
    /\ Alive /\ lock = "none" /\ refresh_pc = "store_lock" => ENABLED RefreshAcquire

\* the refresh loop asks for the lock while a tick holds it
C15_Witness ==
    /\ lock = "sched"
    /\ refresh_pc = "store_lock"

\* deliveries in flight
InFlight == Cardinality({k \in 1..Len(tasks) : tasks[k] = "inflight"})

\* the destination has answered no delivery, with a response or an error:
\* every delivery is in flight or has run into its timeout
Silent == \A k \in 1..Len(tasks) : tasks[k] \in {"inflight", "timeout"}

\* the timeout of a delivery in tick intervals, and the delivery of the tick
\* that starts just as the oldest timeout is due
MaxInFlight == TimeoutMs \div INTERVAL_MS + 1

\* C16 as claimed: with a destination that stays silent the number of
\* deliveries in flight is unbounded: it passes any number, MaxInFlight
\* included, once that many ticks have run.
C16_InFlightUnbounded ==
    Silent /\ pc = "sleep" /\ ticks > MaxInFlight => InFlight > MaxInFlight

\* C16: a delivery ends on its own, with a response, an error or, when its
\* 3 seconds are up, its timeout; once ended it is never started again. A
\* tick leaves every earlier delivery as it is and adds one in flight,
\* however many are in flight. As every delivery in flight is within its
\* timeout and ticks are INTERVAL_MS apart, no more than MaxInFlight are in
\* flight at once.
C16_DeliveriesIndependent ==
    /\ [](InFlight <= MaxInFlight)
    /\ [](\A k \in 1..Len(tasks) :
             tasks[k] = "inflight" => uptime <= spawned[k] + TimeoutMs)
    /\ [](pc = "tick" /\ ticks < TimedTicks => ENABLED TimedTick)
    /\ [][\A k \in 1..Len(tasks) :
             /\ tasks[k] # "inflight" => tasks'[k] = tasks[k]
             /\ tasks'[k] = "timeout" /\ tasks[k] # "timeout"
                   => uptime' > spawned[k] + TimeoutMs]_vars
    /\ [][ticks' = ticks + 1
             => /\ Len(tasks') = Len(tasks) + 1
                /\ tasks'[Len(tasks')] = "inflight"
                /\ \A k \in 1..Len(tasks) : tasks'[k] = tasks[k]]_vars

\* MaxInFlight deliveries are in flight while an earlier one has timed out
C16_Witness ==
    /\ InFlight = MaxInFlight
    /\ \E k \in 1..Len(tasks) : tasks[k] = "timeout"

\* the fields of a record that the claim fixes at startup
StaticFields ==
    {"name", "gid", "alias", "frame", "weight", "notify", "version", "type",
     "location"}

\* C17: once the loop runs the template is never modified: no step of the
\* loop changes it and its dynamic fields stay at their defaults. The record
\* of a tick starts from the template: its static fields are the template's,
\* which are those main built at startup; its timestamp, metrics and cached
\* values are those of this tick, whatever the record before held.
C17_TemplateNeverModified ==
    /\ [](OnPush => /\ stat_base.latest_ts = 0
                    /\ stat_base.cpu = 0
                    /\ stat_base.ip_info = None
                    /\ stat_base.sys_info = None
                    /\ LET built == build_stat_base(cli, network, SysIdVal)
                       IN  \A f \in StaticFields : stat_base[f] = built[f])
    /\ [][OnPush => stat_base' = stat_base]_vars
    /\ [][pc = "tick" /\ ticks' = ticks + 1
             => /\ \A f \in StaticFields : stat_rt'[f] = stat_base[f]
                /\ stat_rt'.latest_ts = as_secs(now)
                /\ stat_rt'.cpu \in CpuVals
                /\ stat_rt'.ip_info =
                      IF args.disable_extra THEN None ELSE G_CONFIG.ip_info
                /\ stat_rt'.sys_info =
                      IF args.disable_extra THEN None ELSE G_CONFIG.sys_info]_vars

\* the third tick has run, its record and the one before carried a later
\* timestamp and cached values, and the template holds none of them
C17_Witness ==
    /\ OnPush
    /\ ticks >= 3
    /\ stat_rt.latest_ts >= 2
    /\ stat_rt.ip_info # None
    /\ stat_rt.cpu # 0
    /\ stat_base.latest_ts = 0 /\ stat_base.ip_info = None /\ stat_base.cpu = 0

\* C18: with auxiliary reporting enabled the system descriptor is in the
\* cache before the first tick and in every record. The IP info of a record
\* is the result of the latest successful lookup (none before the first), so
\* once a record carries IP info every later record carries it too.
C18_AuxPresence ==
    /\ [](~args.disable_extra /\ OnPush => G_CONFIG.sys_info = SysInfoVal)
    /\ [](~args.disable_extra /\ OnPush /\ ticks >= 1
             => stat_rt.sys_info = SysInfoVal)
    /\ [][~args.disable_extra /\ pc = "tick" /\ ticks' = ticks + 1
             => /\ stat_rt'.ip_info = last_ok
                /\ ticks >= 1 /\ stat_rt.ip_info # None
                      => stat_rt'.ip_info # None]_vars

\* a record carries the system descriptor and the IP info of an earlier
\* lookup although the latest lookup failed
C18_Witness ==
    /\ OnPush
    /\ ~args.disable_extra
    /\ ticks >= 2
    /\ stat_rt.sys_info = SysInfoVal
    /\ stat_rt.ip_info # None
    /\ lookups >= 2
    /\ last_lookup = "Err"

\* C19: on the push channel the template's ipv4 flag is true exactly when
\* the probe reported ipv4 or the resolved destination address is IPv4, and
\* likewise for ipv6; resolving never lowers a flag; the flags do not change
\* between ticks, and every record carries them.
C19_FlagsOnlyRaised ==
    /\ [](OnPush => /\ stat_base.online4 = (network[1] \/ resolved.result = "v4")
                    /\ stat_base.online6 = (network[2] \/ resolved.result = "v6"))
    /\ [](OnPush /\ ticks >= 1
             => /\ stat_rt.online4 = stat_base.online4
                /\ stat_rt.online6 = stat_base.online6)
    /\ [][pc = "http_init" \/ OnPush
             => /\ stat_base.online4 => stat_base'.online4
                /\ stat_base.online6 => stat_base'.online6]_vars
    /\ [][OnPush => /\ stat_base'.online4 = stat_base.online4
                    /\ stat_base'.online6 = stat_base.online6]_vars

\* the probe reported ipv4 only, the destination resolved to an IPv6
\* address, and records go out with both flags raised
C19_Witness ==
    /\ OnPush
    /\ ticks >= 2
    /\ network = <<TRUE, FALSE>>
    /\ resolved.result = "v6"
    /\ stat_rt.online4 /\ stat_rt.online6

TypeOK ==
    /\ cli \in Args \cup IfaceCommandLines
    /\ pc \in {"main", "select", "http_init", "tick", "tick_lock", "tick_cs",
               "sleep", "grpc", "exited", "panicked"}
    /\ ticks \in 0..(MaxTicks + TimedTicks)
    /\ requests \in 0..(MaxTicks + TimedTicks)
    /\ refresh_pc \in {"none", "lookup", "store_lock", "store", "wait"}
    /\ G_CONFIG.ip_info \in IpInfos \cup {None}
    /\ G_CONFIG.sys_info \in {SysInfoVal, None}
    /\ network \in NetworkProbes
    /\ interval_first \in BOOLEAN
    /\ waited \in {0, REFRESH_PERIOD_S}
    /\ uptime \in Nat
    /\ Len(spawned) = Len(tasks)
    /\ lock \in {"none", "sched", "refresh"}
    /\ ifc.called \in BOOLEAN

====
